---- MODULE Spec2Model ----
(***************************************************************************)
(* A model of the kcats interpreter (src/src/main.rs): the lexer, the      *)
(* label-indexing first pass and the execution pass of `main`, the State   *)
(* navigation and push/pop helpers, and the built-in instructions.         *)
(*                                                                         *)
(* Two specifications.  Spec follows main from the tokens on, over a       *)
(* family of token sequences; LexSpec applies lex to a family of source    *)
(* texts.                                                                  *)
(*                                                                         *)
(* Representation.  A Rust String is a sequence of Unicode code points     *)
(* (naturals).  Stack values are Strings, as in `stacks: Vec<Vec<String>>`;*)
(* integers go through format / parse exactly where the code formats and   *)
(* parses them.  `pc` and `current_stack` are 0-based as in the code, so   *)
(* the token at the program counter is tokens[pc + 1] and the stack at the *)
(* cursor is stacks[current_stack + 1].                                    *)
(***************************************************************************)
EXTENDS Integers, Sequences, FiniteSets, TLC

VARIABLES
    source,         \* the text given to lex (empty where a run starts after lex)
    tokens,         \* Vec<Token> returned by lex: fixed for the run
    pc,             \* State.pc
    current_stack,  \* State.current_stack
    stacks,         \* State.stacks
    labels,         \* State.labels
    phase,          \* position in main: "lex", "index", "exec" or "panic"
    err,            \* the panic message once phase = "panic"
    stdout,         \* what `print` has written so far
    steps,          \* number of iterations of the execution loop so far
    hist            \* history: the machine before each of the last iterations

vars ==
    <<source, tokens, pc, current_stack, stacks, labels, phase, err, stdout, steps, hist>>

----------------------------------------------------------------------------
(* Bounds of the model *)

\* Programs are a setup prefix followed by at most MaxLen arbitrary tokens.
MaxLen == 2

\* Source texts have at most MaxSrcLen characters.
MaxSrcLen == 4

\* The execution loop is followed for at most MaxSteps iterations.  Within
\* these bounds every integer on a stack stays far inside the i64 range, so
\* the overflow of +, - and * (a panic or a wrap, by the build) is not reached.
MaxSteps == 12

----------------------------------------------------------------------------
(* Strings *)

\* The code point of each character the model writes as a literal.
Code(c) ==
    CASE c = "\t" -> 9   [] c = "\n" -> 10  [] c = " " -> 32
      [] c = "\"" -> 34 [] c = "(" -> 40   [] c = ")" -> 41  [] c = "\\" -> 92
      [] c = "!" -> 33  [] c = "%" -> 37  [] c = "*" -> 42  [] c = "+" -> 43
      [] c = "-" -> 45  [] c = "." -> 46  [] c = "/" -> 47
      [] c = "0" -> 48  [] c = "1" -> 49  [] c = "2" -> 50  [] c = "3" -> 51
      [] c = "4" -> 52  [] c = "5" -> 53  [] c = "6" -> 54  [] c = "7" -> 55
      [] c = "8" -> 56  [] c = "9" -> 57
      [] c = ":" -> 58  [] c = "<" -> 60  [] c = "=" -> 61  [] c = ">" -> 62
      [] c = "_" -> 95
      [] c = "a" -> 97  [] c = "b" -> 98  [] c = "c" -> 99  [] c = "d" -> 100
      [] c = "e" -> 101 [] c = "f" -> 102 [] c = "g" -> 103 [] c = "h" -> 104
      [] c = "i" -> 105 [] c = "j" -> 106 [] c = "l" -> 108 [] c = "m" -> 109
      [] c = "n" -> 110 [] c = "o" -> 111 [] c = "p" -> 112 [] c = "r" -> 114
      [] c = "t" -> 116 [] c = "u" -> 117 [] c = "y" -> 121

\* The String written as the tuple of its characters.
S(cs) == [i \in DOMAIN cs |-> Code(cs[i])]

IsDigit(c) == c >= Code("0") /\ c <= Code("9")

\* format!("{}", value) for a non-negative value
RECURSIVE FormatNat(_)
FormatNat(n) ==
    IF n < 10 THEN <<Code("0") + n>>
    ELSE Append(FormatNat(n \div 10), Code("0") + (n % 10))

\* format!("{}", value) for value: INT_TYPE
format(value) ==
    IF value < 0 THEN <<Code("-")>> \o FormatNat(0 - value) ELSE FormatNat(value)

\* The digits of a String, as a number
RECURSIVE DigitsVal(_)
DigitsVal(ds) ==
    IF ds = <<>> THEN 0
    ELSE 10 * DigitsVal(SubSeq(ds, 1, Len(ds) - 1)) + (ds[Len(ds)] - Code("0"))

\* str::parse::<i64>: an optional sign, then one or more digits and nothing else
Unsigned(s) ==
    IF s # <<>> /\ s[1] \in {Code("+"), Code("-")} THEN Tail(s) ELSE s

ParseOk(s) ==
    /\ Unsigned(s) # <<>>
    /\ \A i \in DOMAIN Unsigned(s) : IsDigit(Unsigned(s)[i])

ParseVal(s) ==
    IF s[1] = Code("-") THEN 0 - DigitsVal(Unsigned(s)) ELSE DigitsVal(Unsigned(s))

\* char::len_utf8
LenUtf8(c) == IF c < 128 THEN 1 ELSE IF c < 2048 THEN 2 ELSE IF c < 65536 THEN 3 ELSE 4

\* String::len: the length in bytes
RECURSIVE ByteLen(_)
ByteLen(s) == IF s = <<>> THEN 0 ELSE LenUtf8(Head(s)) + ByteLen(Tail(s))

\* char::from_u32(code as u32) is Some.  A negative code the model can hold
\* casts to a u32 above the last code point.
ValidChar(code) ==
    /\ code >= 0
    /\ code <= 1114111
    /\ ~(code >= 55296 /\ code <= 57343)

\* Rust's integer division truncates toward zero (d # 0)
Abs(x) == IF x < 0 THEN 0 - x ELSE x
RustDiv(n, d) ==
    IF (n < 0) = (d < 0) THEN Abs(n) \div Abs(d) ELSE 0 - (Abs(n) \div Abs(d))

\* Rust's remainder takes the sign of the dividend (d # 0)
RustRem(n, d) == n - d * RustDiv(n, d)

----------------------------------------------------------------------------
(* Tokens: enum Token *)

Ident(text)  == [kind |-> "Ident",  text |-> text, val |-> 0]
IntTok(val)  == [kind |-> "Int",    text |-> <<>>, val |-> val]
Str(text)    == [kind |-> "Str",    text |-> text, val |-> 0]
LParen       == [kind |-> "LParen", text |-> <<>>, val |-> 0]
RParen       == [kind |-> "RParen", text |-> <<>>, val |-> 0]
Bang         == [kind |-> "Bang",   text |-> <<>>, val |-> 0]

\* instr.starts_with(':')
StartsWithColon(text) == text # <<>> /\ text[1] = Code(":")

\* The built-in mnemonics matched by main
M_add     == S(<<"+">>)
M_sub     == S(<<"-">>)
M_mul     == S(<<"*">>)
M_div     == S(<<"/">>)
M_mod     == S(<<"%">>)
M_eq      == S(<<"=", "=">>)
M_neq     == S(<<"!", "=">>)
M_copy_right == S(<<"=", ">">>)
M_copy_left  == S(<<"<", "=">>)
M_get     == S(<<".">>)
M_right   == S(<<"-", ">">>)
M_left    == S(<<"<", "-">>)
M_chr     == S(<<"c", "h", "r">>)
M_concat  == S(<<"c", "o", "n", "c", "a", "t">>)
M_debug   == S(<<"d", "e", "b", "u", "g">>)
M_dup     == S(<<"d", "u", "p">>)
M_empty   == S(<<"e", "m", "p", "t", "y">>)
M_input   == S(<<"i", "n", "p", "u", "t">>)
M_goto_if == S(<<"g", "o", "t", "o", "_", "i", "f">>)
M_jump    == S(<<"j", "u", "m", "p">>)
M_jump_if == S(<<"j", "u", "m", "p", "_", "i", "f">>)
M_len     == S(<<"l", "e", "n">>)
M_pop     == S(<<"p", "o", "p">>)
M_print   == S(<<"p", "r", "i", "n", "t">>)

Builtins ==
    { M_add, M_sub, M_mul, M_div, M_mod, M_eq, M_neq, M_copy_right, M_copy_left,
      M_get, M_right, M_left, M_chr, M_concat, M_debug, M_dup, M_empty, M_input,
      M_goto_if, M_jump, M_jump_if, M_len, M_pop, M_print }

----------------------------------------------------------------------------
(* struct State and its methods.  A machine value st is a record of the    *)
(* State fields, the output written so far and the panic message: NoErr    *)
(* while the run has not panicked.  A panic ends the run, so every         *)
(* operation leaves a panicked machine as it is.                           *)

NoErr == ""

Machine == [pc |-> pc, current_stack |-> current_stack, stacks |-> stacks,
            labels |-> labels, err |-> err, stdout |-> stdout]

Panic(st, msg) == IF st.err # NoErr THEN st ELSE [st EXCEPT !.err = msg]

\* self.stacks[self.current_stack]
CurStack(st) == st.stacks[st.current_stack + 1]

\* Mutant of push_string: the value goes to the leftmost stack
push_string_leftmost(st, value) ==
    IF st.err # NoErr THEN st
    ELSE [st EXCEPT !.stacks[1] = Append(@, value)]

push_string(st, value) ==
    IF st.err # NoErr THEN st
    ELSE [st EXCEPT !.stacks[st.current_stack + 1] = Append(@, value)]

push_int(st, value) == push_string(st, format(value))

\* Mutant of pop_string: an empty stack gives the empty String
pop_string_or_default(st) ==
    IF st.err # NoErr \/ CurStack(st) = <<>> THEN [st |-> st, val |-> <<>>]
    ELSE [st  |-> [st EXCEPT !.stacks[st.current_stack + 1] =
                                 SubSeq(@, 1, Len(@) - 1)],
          val |-> CurStack(st)[Len(CurStack(st))]]

\* pop_string and pop_int give the machine after the pop and the value popped
pop_string(st) ==
    IF st.err # NoErr THEN [st |-> st, val |-> <<>>]
    ELSE IF CurStack(st) = <<>>
    THEN [st |-> Panic(st, "failed to pop string from stack"), val |-> <<>>]
    ELSE [st  |-> [st EXCEPT !.stacks[st.current_stack + 1] =
                                 SubSeq(@, 1, Len(@) - 1)],
          val |-> CurStack(st)[Len(CurStack(st))]]

pop_int(st) ==
    IF st.err # NoErr THEN [st |-> st, val |-> 0]
    ELSE IF CurStack(st) = <<>>
    THEN [st |-> Panic(st, "failed to pop int from stack"), val |-> 0]
    ELSE LET top    == CurStack(st)[Len(CurStack(st))]
             popped == [st EXCEPT !.stacks[st.current_stack + 1] =
                                      SubSeq(@, 1, Len(@) - 1)]
         IN  IF ParseOk(top)
             THEN [st |-> popped, val |-> ParseVal(top)]
             ELSE [st |-> Panic(popped, "failed to convert value to int"), val |-> 0]

\* Mutant of switch_to_left_stack: the cursor goes back to the leftmost stack
switch_to_left_stack_leftmost(st) ==
    IF st.err # NoErr THEN st
    ELSE IF st.current_stack = 0
    THEN Panic(st, "attempted to switch to the left stack from the leftmost stack")
    ELSE [st EXCEPT !.current_stack = 0]

\* Mutant of switch_to_left_stack: the subtraction saturates at 0
switch_to_left_stack_saturating(st) ==
    IF st.err # NoErr THEN st
    ELSE IF st.current_stack = 0 THEN st
    ELSE [st EXCEPT !.current_stack = @ - 1]

switch_to_left_stack(st) ==
    IF st.err # NoErr THEN st
    ELSE IF st.current_stack = 0
    THEN Panic(st, "attempted to switch to the left stack from the leftmost stack")
    ELSE [st EXCEPT !.current_stack = @ - 1]

\* Mutant of switch_to_right_stack: the row is not grown
switch_to_right_stack_no_grow(st) ==
    IF st.err # NoErr THEN st ELSE [st EXCEPT !.current_stack = @ + 1]

\* Mutant of switch_to_right_stack: every move appends a stack
switch_to_right_stack_always_grow(st) ==
    IF st.err # NoErr THEN st
    ELSE [st EXCEPT !.current_stack = @ + 1, !.stacks = Append(@, <<>>)]

switch_to_right_stack(st) ==
    IF st.err # NoErr THEN st
    ELSE LET moved == [st EXCEPT !.current_stack = @ + 1]
         IN  IF moved.current_stack = Len(moved.stacks)
             THEN [moved EXCEPT !.stacks = Append(@, <<>>)]
             ELSE moved

----------------------------------------------------------------------------
(* LEXER: lex reads the text through a peekable iterator; here the text is *)
(* src and the iterator is the 1-based position i of the character that    *)
(* src.next() returns, which is past Len(src) once the text is exhausted   *)

IsSpace(c) == c \in {Code(" "), Code("\n"), Code("\t")}

\* str::replace of the two characters <<a, b>> by the character to
RECURSIVE replace(_, _, _, _)
replace(text, a, b, to) ==
    IF Len(text) < 2 THEN text
    ELSE IF text[1] = a /\ text[2] = b
    THEN <<to>> \o replace(SubSeq(text, 3, Len(text)), a, b, to)
    ELSE <<text[1]>> \o replace(Tail(text), a, b, to)

unquote(text) ==
    replace(replace(text, Code("\\"), Code("n"), Code("\n")),
            Code("\\"), Code("t"), Code("\t"))

\* The loop of the comment arm: characters are taken up to and including
\* the end of the line; the result is the position after the loop
RECURSIVE lex_comment(_, _)
lex_comment(src, i) ==
    IF i > Len(src) THEN i
    ELSE IF src[i] = Code("\n") THEN i + 1
    ELSE lex_comment(src, i + 1)

\* The loop of the string arm: characters are taken up to and including
\* the closing quote; ok is FALSE when the text ends first
RECURSIVE lex_string(_, _, _)
lex_string(src, i, acc) ==
    IF i > Len(src) THEN [ok |-> FALSE, acc |-> acc, i |-> i]
    ELSE IF src[i] = Code("\"") THEN [ok |-> TRUE, acc |-> acc, i |-> i + 1]
    ELSE lex_string(src, i + 1, Append(acc, src[i]))

\* The loop of the integer arm, `while let Some(c @ '0'..='9') = src.next()`:
\* the character that ends the loop has been taken from the iterator
RECURSIVE lex_int(_, _, _)
lex_int(src, i, acc) ==
    IF i > Len(src) THEN [acc |-> acc, i |-> i]
    ELSE IF IsDigit(src[i]) THEN lex_int(src, i + 1, Append(acc, src[i]))
    ELSE [acc |-> acc, i |-> i + 1]

\* The loop of the identifier arm: the delimiter that ends the loop has been
\* taken from the iterator
RECURSIVE lex_ident(_, _, _)
lex_ident(src, i, acc) ==
    IF i > Len(src) THEN [acc |-> acc, i |-> i]
    ELSE IF IsSpace(src[i]) \/ src[i] \in {Code("\""), Code("("), Code(")")}
    THEN [acc |-> acc, i |-> i + 1]
    ELSE lex_ident(src, i + 1, Append(acc, src[i]))

\* `while let Some(c) = src.next() { match c { ... } }` from position i, with
\* the tokens pushed so far; the arms are tried in the order of the code.
\* The literals of the model are short, so acc.parse() does not overflow
RECURSIVE lex_loop(_, _, _)
lex_loop(src, i, toks) ==
    IF i > Len(src) THEN [tokens |-> toks, err |-> NoErr]
    ELSE
      LET c == src[i]
          peek == IF i + 1 > Len(src) THEN 0 - 1 ELSE src[i + 1]
      IN  IF c = Code("!") /\ peek # Code("=")
          THEN lex_loop(src, i + 1, Append(toks, Bang))
          ELSE IF c = Code("(") THEN lex_loop(src, i + 1, Append(toks, LParen))
          ELSE IF c = Code(")") THEN lex_loop(src, i + 1, Append(toks, RParen))
          ELSE IF c = Code("/") /\ peek = Code("/")
          THEN lex_loop(src, lex_comment(src, i + 1), toks)
          ELSE IF c = Code("\"")
          THEN LET lit == lex_string(src, i + 1, <<>>)
               IN  IF lit.ok
                   THEN lex_loop(src, lit.i, Append(toks, Str(unquote(lit.acc))))
                   ELSE [tokens |-> toks, err |-> "unfinished string literal"]
          ELSE IF IsDigit(c)
          THEN LET lit == lex_int(src, i + 1, <<c>>)
               IN  lex_loop(src, lit.i, Append(toks, IntTok(DigitsVal(lit.acc))))
          ELSE IF IsSpace(c) THEN lex_loop(src, i + 1, toks)
          ELSE LET lit == lex_ident(src, i + 1, <<c>>)
               IN  lex_loop(src, lit.i, Append(toks, Ident(lit.acc)))

lex(src) == lex_loop(src, 1, <<>>)

----------------------------------------------------------------------------
(* INSTRUCTIONS: each maps the machine before the call to the machine after *)

\* $x $y +
i_add(st) ==
    LET y == pop_int(st)
        x == pop_int(y.st)
    IN  push_int(x.st, x.val + y.val)

\* $code chr
i_chr(st) ==
    LET code == pop_int(st)
    IN  IF code.st.err # NoErr THEN code.st
        ELSE IF ValidChar(code.val) THEN push_string(code.st, <<code.val>>)
        ELSE Panic(code.st, "is not a valid character")

\* $start $end concat
i_concat(st) ==
    LET end   == pop_string(st)
        start == pop_string(end.st)
    IN  push_string(start.st, start.val \o end.val)

\* Mutant of i_copy_left: the value is copied, not moved
i_copy_left_keep(st) ==
    LET value == pop_string(st)
        kept  == IF value.st.err # NoErr THEN value.st ELSE st
    IN  switch_to_right_stack(
            push_string(switch_to_left_stack(kept), value.val))

\* $value <=
i_copy_left(st) ==
    LET value == pop_string(st)
    IN  switch_to_right_stack(
            push_string(switch_to_left_stack(value.st), value.val))

\* $value =>
i_copy_right(st) ==
    LET value == pop_string(st)
    IN  switch_to_left_stack(
            push_string(switch_to_right_stack(value.st), value.val))

\* $dividend $divisor /      (the code divides the dividend by itself)
i_div(st) ==
    LET divisor  == pop_int(st)
        dividend == pop_int(divisor.st)
    IN  IF dividend.st.err # NoErr THEN dividend.st
        ELSE IF dividend.val = 0
        THEN Panic(dividend.st, "attempt to divide by zero")
        ELSE push_int(dividend.st, RustDiv(dividend.val, dividend.val))

\* $value dup
i_dup(st) ==
    LET value == pop_string(st)
    IN  push_string(push_string(value.st, value.val), value.val)

\* empty
i_empty(st) ==
    IF st.err # NoErr THEN st
    ELSE push_int(st, IF CurStack(st) = <<>> THEN 1 ELSE 0)

\* input: `line` is what read_line appends to the empty value (nothing at
\* end of input); value.pop() then drops its last character, if any
i_input(st, line) ==
    push_string(st, IF line = <<>> THEN <<>> ELSE SubSeq(line, 1, Len(line) - 1))

\* $x $y ==
\* Mutant of i_eq: the operands are compared as integers
i_eq_numeric(st) ==
    LET y == pop_int(st)
        x == pop_int(y.st)
    IN  push_int(x.st, IF x.val = y.val THEN 1 ELSE 0)

i_eq(st) ==
    LET y == pop_string(st)
        x == pop_string(y.st)
    IN  push_int(x.st, IF x.val = y.val THEN 1 ELSE 0)

\* $string $index .      (a negative index casts to a usize past any string)
i_get(st) ==
    LET index  == pop_int(st)
        string == pop_string(index.st)
    IN  IF string.st.err # NoErr THEN string.st
        ELSE IF index.val >= 0 /\ index.val < Len(string.val)
        THEN push_string(string.st, <<string.val[index.val + 1]>>)
        ELSE Panic(string.st, "attempted to access string with an invalid index")

\* $condition $label goto_if
\* Mutant of i_goto_if: the label is looked up before the condition is tested
i_goto_if_eager(st) ==
    LET label     == pop_string(st)
        condition == pop_int(label.st)
    IN  IF condition.st.err # NoErr THEN condition.st
        ELSE IF label.val \notin DOMAIN condition.st.labels
        THEN Panic(condition.st, "unknown label")
        ELSE IF condition.val # 0
        THEN [condition.st EXCEPT !.pc = condition.st.labels[label.val]]
        ELSE condition.st

i_goto_if(st) ==
    LET label     == pop_string(st)
        condition == pop_int(label.st)
    IN  IF condition.st.err # NoErr THEN condition.st
        ELSE IF condition.val # 0
        THEN IF label.val \in DOMAIN condition.st.labels
             THEN [condition.st EXCEPT !.pc = condition.st.labels[label.val]]
             ELSE Panic(condition.st, "unknown label")
        ELSE condition.st

\* Mutant of i_jump: the target allows for the pc += 1 that follows
i_jump_compensated(st) ==
    LET target == pop_int(st)
    IN  IF target.st.err # NoErr THEN target.st
        ELSE [target.st EXCEPT !.pc = target.val - 1]

\* $pc jump      (pc as usize: a pc below 0 stands for the usize 2^64 + pc)
\* Mutant of i_jump: a target past the last token is refused
i_jump_bounded(st) ==
    LET target == pop_int(st)
    IN  IF target.st.err # NoErr THEN target.st
        ELSE IF target.val >= Len(tokens)
        THEN Panic(target.st, "jump out of bounds")
        ELSE [target.st EXCEPT !.pc = target.val]

i_jump(st) ==
    LET target == pop_int(st)
    IN  IF target.st.err # NoErr THEN target.st
        ELSE [target.st EXCEPT !.pc = target.val]

\* $condition $pc jump_if
i_jump_if(st) ==
    LET target    == pop_int(st)
        condition == pop_int(target.st)
    IN  IF condition.st.err # NoErr THEN condition.st
        ELSE IF condition.val # 0
        THEN [condition.st EXCEPT !.pc = target.val]
        ELSE condition.st

\* $string len
i_len(st) ==
    LET string == pop_string(st)
    IN  push_int(string.st, ByteLen(string.val))

\* $x $y *
i_mul(st) ==
    LET y == pop_int(st)
        x == pop_int(y.st)
    IN  push_int(x.st, x.val * y.val)

\* $value $modulo %
i_mod(st) ==
    LET modulo == pop_int(st)
        value  == pop_int(modulo.st)
    IN  IF value.st.err # NoErr THEN value.st
        ELSE IF modulo.val = 0
        THEN Panic(value.st, "attempt to calculate the remainder with a divisor of zero")
        ELSE push_int(value.st, RustRem(value.val, modulo.val))

\* $x $y !=
i_neq(st) ==
    LET x == pop_string(st)
        y == pop_string(x.st)
    IN  push_int(y.st, IF x.val # y.val THEN 1 ELSE 0)

\* pop
i_pop(st) == pop_string(st).st

\* $value print
i_print(st) ==
    LET value == pop_string(st)
    IN  IF value.st.err # NoErr THEN value.st
        ELSE [value.st EXCEPT !.stdout = @ \o value.val]

\* !
\* Mutant of i_save_pc: the index pushed is that of the next token
i_save_pc_next(st) == push_int(st, st.pc + 1)

i_save_pc(st) == push_int(st, st.pc)

\* Mutant of i_sub: the operands are taken in the other order
i_sub_swapped(st) ==
    LET by   == pop_int(st)
        base == pop_int(by.st)
    IN  push_int(base.st, by.val - base.val)

\* $base $by -
i_sub(st) ==
    LET by   == pop_int(st)
        base == pop_int(by.st)
    IN  push_int(base.st, base.val - by.val)

----------------------------------------------------------------------------
(* main: the dispatch of one token *)

\* Mutant of insert: an entry that exists is kept (entry().or_insert())
insert_if_absent(map, key, value) ==
    [k \in DOMAIN map \cup {key} |-> IF k \in DOMAIN map THEN map[k] ELSE value]

\* state.labels.insert(key, value)
insert(map, key, value) ==
    [k \in DOMAIN map \cup {key} |-> IF k = key THEN value ELSE map[k]]

\* Mutant of label_def: the definition is recorded when it is executed
label_def_recorded(st, instr) ==
    [st EXCEPT !.labels =
        [k \in DOMAIN @ \cup {Tail(instr)} |-> IF k = Tail(instr) THEN st.pc ELSE @[k]]]

\* instr if instr.starts_with(':') => (): a label definition does nothing
label_def(st, instr) == st

\* Mutant of call_label: an identifier that is no label is passed over
call_label_lenient(st, instr) ==
    IF st.err # NoErr THEN st
    ELSE IF instr \in DOMAIN st.labels
    THEN [st EXCEPT !.pc = st.labels[instr]]
    ELSE st

\* The last arm of the match on the mnemonic: a call of a label
call_label(st, instr) ==
    IF st.err # NoErr THEN st
    ELSE IF instr \in DOMAIN st.labels
    THEN [st EXCEPT !.pc = st.labels[instr]]
    ELSE Panic(st, "unknown instruction")

\* Token::Ident(ref instr) => match instr.as_str() { ... }
exec_ident(st, instr, line) ==
    CASE instr = M_add        -> i_add(st)
      [] instr = M_sub        -> i_sub(st)
      [] instr = M_mul        -> i_mul(st)
      [] instr = M_div        -> i_div(st)
      [] instr = M_mod        -> i_mod(st)
      [] instr = M_eq         -> i_eq(st)
      [] instr = M_neq        -> i_neq(st)
      [] instr = M_copy_right -> i_copy_right(st)
      [] instr = M_copy_left  -> i_copy_left(st)
      [] instr = M_get        -> i_get(st)
      [] instr = M_right      -> switch_to_right_stack(st)
      [] instr = M_left       -> switch_to_left_stack(st)
      [] instr = M_chr        -> i_chr(st)
      [] instr = M_concat     -> i_concat(st)
      [] instr = M_debug      -> st
      [] instr = M_dup        -> i_dup(st)
      [] instr = M_empty      -> i_empty(st)
      [] instr = M_input      -> i_input(st, line)
      [] instr = M_goto_if    -> i_goto_if(st)
      [] instr = M_jump       -> i_jump(st)
      [] instr = M_jump_if    -> i_jump_if(st)
      [] instr = M_len        -> i_len(st)
      [] instr = M_pop        -> i_pop(st)
      [] instr = M_print      -> i_print(st)
      [] OTHER -> IF StartsWithColon(instr) THEN label_def(st, instr)
                  ELSE call_label(st, instr)

\* match tokens[state.pc] { ... }
dispatch(st, tok, line) ==
    CASE tok.kind \in {"LParen", "RParen"} -> st
      [] tok.kind = "Bang"  -> i_save_pc(st)
      [] tok.kind = "Int"   -> push_int(st, tok.val)
      [] tok.kind = "Str"   -> push_string(st, tok.text)
      [] tok.kind = "Ident" -> exec_ident(st, tok.text, line)

\* state.pc += 1 at the end of an iteration.  The usize 2^64 - 1 (a jump to
\* -1) overflows: the addition panics where overflow checks are compiled in
\* and wraps to 0 where they are not.
advance(st, checked) ==
    IF st.err # NoErr THEN st
    ELSE IF st.pc = 0 - 1
    THEN IF checked THEN Panic(st, "attempt to add with overflow")
         ELSE [st EXCEPT !.pc = 0]
    ELSE [st EXCEPT !.pc = @ + 1]

\* state.pc < tokens.len(), for a usize pc
InProgram == pc >= 0 /\ pc < Len(tokens)

----------------------------------------------------------------------------
(* The programs and the input lines the model runs *)

Lit(cs) == Ident(S(cs))

Alphabet ==
    {IntTok(0), IntTok(1), Str(S(<<"a">>)), LParen, RParen, Bang}
    \cup {Ident(m) : m \in Builtins}
    \cup {Lit(<<":", "a">>), Lit(<<"a">>)}

\* The setups: nothing; a value; a condition and a label name; the cursor on
\* a second stack that holds two values; a label and a taken condition
Prefixes ==
    { <<>>,
      <<IntTok(2)>>,
      <<IntTok(0), Str(S(<<"a">>))>>,
      <<Ident(M_right), IntTok(1), IntTok(2)>>,
      <<Lit(<<":", "a">>), IntTok(1), Str(S(<<"a">>))>> }

Bodies == UNION {[1..n -> Alphabet] : n \in 0..MaxLen}

\* The countdown loop from n: push n, define `:loop`, subtract 1, duplicate
\* the counter and jump_if to the index of the `:loop` token
Countdown(n) ==
    <<IntTok(n), Lit(<<":", "l", "o", "o", "p">>), IntTok(1), Ident(M_sub),
      Ident(M_dup), IntTok(1), Ident(M_jump_if)>>

\* The counters whose countdown ends within the iterations the model follows:
\* two iterations, then five for each round of the loop
Counters == {n \in 1..MaxSteps : 5 * n + 2 <= MaxSteps}

\* A label that has the name of a built-in, a value, and the built-in
Shadowed(m) == <<Ident(<<Code(":")>> \o m), IntTok(1), Ident(m)>>

Programs ==
    {pre \o body : pre \in Prefixes, body \in Bodies}
        \cup {Countdown(n) : n \in Counters}
        \cup {Shadowed(m) : m \in Builtins}

\* What read_line can deliver: nothing (end of input), an empty line, a line
\* of text, and a last line that has no newline
StdinLines == {<<>>, S(<<"\n">>), S(<<"a", "\n">>), S(<<"1", "2">>)}

----------------------------------------------------------------------------
(* main *)

Snapshot == [pc |-> pc, current_stack |-> current_stack, stacks |-> stacks,
             labels |-> labels, stdout |-> stdout]

\* The history keeps the machine before each of the last two iterations
Remember(h, snap) == IF h = <<>> THEN <<snap>> ELSE <<h[Len(h)], snap>>

\* let mut state = State { pc: 0, current_stack: 0, stacks: vec![Vec::new()],
\*                         labels: HashMap::new() }
Init ==
    /\ source = <<>>
    /\ tokens \in Programs
    /\ pc = 0
    /\ current_stack = 0
    /\ stacks = << <<>> >>
    /\ labels = [k \in {} |-> 0]
    /\ phase = "index"
    /\ err = NoErr
    /\ stdout = <<>>
    /\ steps = 0
    /\ hist = <<>>

\* One iteration of the first loop: record a label definition, step on
IndexLabel ==
    /\ phase = "index"
    /\ InProgram
    /\ labels' = IF tokens[pc + 1].kind = "Ident" /\ StartsWithColon(tokens[pc + 1].text)
                 THEN insert(labels, Tail(tokens[pc + 1].text), pc)
                 ELSE labels
    /\ pc' = pc + 1
    /\ UNCHANGED <<source, tokens, current_stack, stacks, phase, err, stdout, steps, hist>>

\* The first loop is over: state.pc = 0
StartExec ==
    /\ phase = "index"
    /\ ~InProgram
    /\ pc' = 0
    /\ phase' = "exec"
    /\ UNCHANGED <<source, tokens, current_stack, stacks, labels, err, stdout, steps, hist>>

\* The nondeterminism of an iteration: the line `input` reads, and whether
\* the build checks the overflow of pc += 1
LinesFor(tok) == IF tok = Ident(M_input) THEN StdinLines ELSE {<<>>}
ChecksFor(st) == IF st.err = NoErr /\ st.pc = 0 - 1 THEN BOOLEAN ELSE {TRUE}

\* One iteration of the second loop: dispatch the token at pc, then pc += 1
Exec ==
    /\ phase = "exec"
    /\ InProgram
    /\ steps < MaxSteps
    /\ \E line \in LinesFor(tokens[pc + 1]) :
         \E done \in {dispatch(Machine, tokens[pc + 1], line)} :
             \E checked \in ChecksFor(done) :
               \E after \in {advance(done, checked)} :
                   /\ pc' = after.pc
                   /\ current_stack' = after.current_stack
                   /\ stacks' = after.stacks
                   /\ labels' = after.labels
                   /\ stdout' = after.stdout
                   /\ err' = after.err
                   /\ phase' = IF after.err # NoErr THEN "panic" ELSE "exec"
    /\ steps' = steps + 1
    /\ hist' = Remember(hist, Snapshot)
    /\ UNCHANGED <<source, tokens>>

Next == IndexLabel \/ StartExec \/ Exec

Spec == Init /\ [][Next]_vars

\* The characters of the source texts: a digit, a letter, an operator,
\* the parentheses, the quote, blank and newline, and what begins a comment,
\* an escape, a Bang or `!=`
SrcChars ==
    {Code("1"), Code("n"), Code("+"), Code("("), Code(")"), Code("\""),
     Code(" "), Code("\n"), Code("/"), Code("\\"), Code("!"), Code("=")}

Sources == UNION {[1..n -> SrcChars] : n \in 0..MaxSrcLen}

\* main before `let tokens = lex(source)`
LexInit ==
    /\ source \in Sources
    /\ tokens = <<>>
    /\ pc = 0
    /\ current_stack = 0
    /\ stacks = << <<>> >>
    /\ labels = [k \in {} |-> 0]
    /\ phase = "lex"
    /\ err = NoErr
    /\ stdout = <<>>
    /\ steps = 0
    /\ hist = <<>>

\* let tokens = lex(source)
Lex ==
    /\ phase = "lex"
    /\ tokens' = lex(source).tokens
    /\ err' = lex(source).err
    /\ phase' = IF lex(source).err # NoErr THEN "panic" ELSE "index"
    /\ UNCHANGED <<source, pc, current_stack, stacks, labels, stdout, steps, hist>>

LexNext == Lex

LexSpec == LexInit /\ [][LexNext]_vars

\* The run has ended by running off the end of the tokens
Completed == phase = "exec" /\ ~InProgram

\* The run has ended in a panic
Panicked == phase = "panic"

----------------------------------------------------------------------------
(* Reading the history in the properties below.  A snapshot h is the       *)
(* machine before an iteration of the execution loop.                      *)

\* The token the iteration dispatched and the stack then at the cursor
TokAt(h) == tokens[h.pc + 1]
StackAt(h) == h.stacks[h.current_stack + 1]

\* The top of a stack, and the stack without its top k values
Top(stack) == stack[Len(stack)]
Below(stack, k) == SubSeq(stack, 1, Len(stack) - k)

\* The k-th value from the top of a stack, as the integer it parses to
IsInt(stack, k) == Len(stack) >= k /\ ParseOk(stack[Len(stack) + 1 - k])
IntAt(stack, k) == ParseVal(stack[Len(stack) + 1 - k])

\* The iteration dispatched a call: an identifier that is no built-in and
\* no label definition
CallAt(h) ==
    /\ TokAt(h).kind = "Ident"
    /\ TokAt(h).text \notin Builtins
    /\ ~StartsWithColon(TokAt(h).text)

\* The iteration dispatched a label definition
LabelDefAt(h) == TokAt(h).kind = "Ident" /\ StartsWithColon(TokAt(h).text)

\* The iteration dispatched a goto_if whose condition was not 0
TakenGotoAt(h) ==
    /\ TokAt(h) = Ident(M_goto_if)
    /\ IsInt(StackAt(h), 2)
    /\ IntAt(StackAt(h), 2) # 0

\* The iteration dispatched a jump, or a jump_if whose condition was not 0,
\* with an integer target
TakenJumpAt(h) ==
    \/ TokAt(h) = Ident(M_jump) /\ IsInt(StackAt(h), 1)
    \/ /\ TokAt(h) = Ident(M_jump_if)
       /\ IsInt(StackAt(h), 1)
       /\ IsInt(StackAt(h), 2)
       /\ IntAt(StackAt(h), 2) # 0

\* The machine before the last iteration, its token and its stack
LastPre == hist[Len(hist)]
LastTok == TokAt(LastPre)
PreStack == StackAt(LastPre)

\* The last iteration dispatched the built-in m
Ran(m) == hist # <<>> /\ LastTok = Ident(m)

\* The last two iterations dispatched the built-ins m1 and then m2
RanPair(m1, m2) ==
    Len(hist) = 2 /\ TokAt(hist[1]) = Ident(m1) /\ TokAt(hist[2]) = Ident(m2)

\* The 0-based indices of the tokens `:name`, and the last of them
DefsOf(name) ==
    {i \in 0..(Len(tokens) - 1) : tokens[i + 1] = Ident(<<Code(":")>> \o name)}

LastDef(name) == CHOOSE i \in DefsOf(name) : \A j \in DefsOf(name) : j <= i

\* The names that some token defines
DefinedNames ==
    {Tail(tokens[i].text) : i \in {j \in DOMAIN tokens :
        tokens[j].kind = "Ident" /\ StartsWithColon(tokens[j].text)}}

PopMessage == "failed to pop string from stack"
LeftmostMessage == "attempted to switch to the left stack from the leftmost stack"

----------------------------------------------------------------------------
(* C1 -- In every reachable state the cursor is a valid index into the     *)
(* stack row, 0 <= current_stack < number of stacks: initially and after   *)
(* every instruction, `->`, `<-`, `=>` and `<=` included.                  *)
CursorValid == current_stack >= 0 /\ current_stack < Len(stacks)

\* C1 witness: `<=` has run from a stack right of the leftmost one and the
\* run goes on
CursorValidWitness ==
    /\ Ran(M_copy_left)
    /\ phase = "exec"
    /\ current_stack > 0
    /\ Len(stacks) > current_stack

----------------------------------------------------------------------------
(* C2 -- With integers a and b, b # 0, pushed in that order on the current *)
(* stack, `/` pops both and pushes the quotient a / b.                     *)
DivPushesQuotient ==
    (Ran(M_div) /\ IsInt(PreStack, 1) /\ IsInt(PreStack, 2) /\ IntAt(PreStack, 1) # 0)
        => /\ phase = "exec"
           /\ current_stack = LastPre.current_stack
           /\ stacks[current_stack + 1] =
                  Append(Below(PreStack, 2),
                         format(RustDiv(IntAt(PreStack, 2), IntAt(PreStack, 1))))

----------------------------------------------------------------------------
(* C3 -- `/` or `%` with a divisor of 0 (the top of the current stack) is  *)
(* fatal whatever the dividend, and with a divisor other than 0 they never *)
(* fail for a zero operand.                                                *)
ZeroDivisorMessages ==
    {"attempt to divide by zero",
     "attempt to calculate the remainder with a divisor of zero"}

ZeroDivisorIsFatal ==
    ((Ran(M_div) \/ Ran(M_mod)) /\ IsInt(PreStack, 1) /\ IsInt(PreStack, 2))
        => IF IntAt(PreStack, 1) = 0
           THEN phase = "panic"
           ELSE err \notin ZeroDivisorMessages

----------------------------------------------------------------------------
(* C4 -- The program counter is advanced by exactly one after every        *)
(* executed instruction, jumps included: after `jump`, a taken `jump_if`,  *)
(* a taken `goto_if` or a call sets it to the target t, the token at t is  *)
(* not dispatched and the next token dispatched is the one at t + 1; for a *)
(* label the target is the token that defines it, which is skipped.        *)

\* An iteration that began in h and did not panic left the counter at next
AdvancedByOne(h, next) ==
    /\ TakenJumpAt(h) => next = IntAt(StackAt(h), 1) + 1
    /\ TakenGotoAt(h) =>
          /\ next - 1 = h.labels[Top(StackAt(h))]
          /\ next - 1 \in DefsOf(Top(StackAt(h)))
    /\ CallAt(h) =>
          /\ next - 1 = h.labels[TokAt(h).text]
          /\ next - 1 \in DefsOf(TokAt(h).text)
    /\ ~(TakenJumpAt(h) \/ TakenGotoAt(h) \/ CallAt(h)) => next = h.pc + 1

PcAdvancesByOne ==
    /\ (hist # <<>> /\ phase = "exec") => AdvancedByOne(LastPre, pc)
    /\ Len(hist) = 2 => AdvancedByOne(hist[1], hist[2].pc)

\* C4 witness: a jump_if was taken, and the token dispatched next was the
\* one after its target, not its target and not the token after the jump_if
PcAdvancesWitness ==
    /\ Len(hist) = 2
    /\ TokAt(hist[1]) = Ident(M_jump_if)
    /\ TakenJumpAt(hist[1])
    /\ hist[2].pc = IntAt(StackAt(hist[1]), 1) + 1
    /\ hist[2].pc # hist[1].pc + 1

----------------------------------------------------------------------------
(* C5 -- Label resolution is last-definition-wins: when a name is defined  *)
(* by several `:name` tokens the label table maps it to the index of the   *)
(* last of them, and every call `name` and every taken `goto_if` on it     *)
(* sets the program counter to that index, wherever it is issued from.     *)
LastDefinitionWins ==
    phase # "index"
        => /\ \A name \in DefinedNames :
                 name \in DOMAIN labels /\ labels[name] = LastDef(name)
           /\ (hist # <<>> /\ phase = "exec" /\ CallAt(LastPre))
                 => pc - 1 = LastDef(LastTok.text)
           /\ (hist # <<>> /\ phase = "exec" /\ TakenGotoAt(LastPre))
                 => pc - 1 = LastDef(Top(PreStack))

\* C5 witness: a taken goto_if on a name defined twice, issued after both
\* definitions
LastDefinitionWitness ==
    /\ hist # <<>>
    /\ TakenGotoAt(LastPre)
    /\ phase = "exec"
    /\ Cardinality(DefsOf(Top(PreStack))) >= 2
    /\ LastPre.pc > LastDef(Top(PreStack))
    /\ pc - 1 = LastDef(Top(PreStack))

----------------------------------------------------------------------------
(* C6 -- The label table is completely built by the first pass before the  *)
(* first instruction executes and no instruction changes it: throughout    *)
(* the execution pass it is the table of the first pass, so a call or      *)
(* goto_if to a label defined later in the tokens resolves, and passing    *)
(* over a `:name` token changes nothing but the program counter.           *)
LabelTableFixed ==
    phase # "index"
        => /\ DOMAIN labels = DefinedNames
           /\ hist # <<>> => labels = LastPre.labels
           /\ Len(hist) = 2 => hist[2].labels = hist[1].labels
           /\ (hist # <<>> /\ CallAt(LastPre) /\ LastTok.text \in DefinedNames)
                 => phase = "exec"
           /\ (hist # <<>> /\ TakenGotoAt(LastPre) /\ Top(PreStack) \in DefinedNames)
                 => phase = "exec"
           /\ (hist # <<>> /\ LabelDefAt(LastPre))
                 => /\ phase = "exec"
                    /\ pc = LastPre.pc + 1
                    /\ stacks = LastPre.stacks
                    /\ current_stack = LastPre.current_stack
                    /\ stdout = LastPre.stdout

\* C6 witness: a call resolved to a label defined later in the tokens
LabelTableWitness ==
    /\ hist # <<>>
    /\ CallAt(LastPre)
    /\ phase = "exec"
    /\ LastPre.pc < LastDef(LastTok.text)
    /\ labels = LastPre.labels

----------------------------------------------------------------------------
(* C7 -- From a cursor on any stack but the leftmost, `->` immediately     *)
(* followed by `<-` returns the cursor to where it was and leaves the      *)
(* contents of the stacks unchanged: every stack of the row holds what it  *)
(* held, and a stack the move created is empty.                            *)
RightThenLeftRestores ==
    (RanPair(M_right, M_left) /\ hist[1].current_stack > 0)
        => /\ phase = "exec"
           /\ current_stack = hist[1].current_stack
           /\ Len(stacks) >= Len(hist[1].stacks)
           /\ \A i \in DOMAIN stacks :
                 stacks[i] = IF i <= Len(hist[1].stacks) THEN hist[1].stacks[i] ELSE <<>>

\* C7 witness: the pair has run from a stack right of the leftmost one that
\* holds values
RightThenLeftWitness ==
    /\ RanPair(M_right, M_left)
    /\ hist[1].current_stack > 0
    /\ StackAt(hist[1]) # <<>>
    /\ current_stack = hist[1].current_stack

----------------------------------------------------------------------------
(* C8 -- `=>` immediately followed by `<=`, both at the same cursor and    *)
(* with a value on top of the current stack, is a no-op on the final       *)
(* state: the top of the origin stack is the value it was, the stack to    *)
(* the right is unaffected and the cursor is where it started.             *)

\* The stack right of the cursor in h: empty when it does not exist yet
RightOf(h) ==
    IF h.current_stack + 2 <= Len(h.stacks) THEN h.stacks[h.current_stack + 2]
    ELSE <<>>

CopyRoundTripIsNoop ==
    (RanPair(M_copy_right, M_copy_left) /\ StackAt(hist[1]) # <<>>)
        => /\ phase = "exec"
           /\ current_stack = hist[1].current_stack
           /\ stacks[current_stack + 1] # <<>>
           /\ Top(stacks[current_stack + 1]) = Top(StackAt(hist[1]))
           /\ current_stack + 2 <= Len(stacks)
                 => stacks[current_stack + 2] = RightOf(hist[1])

(* C8, amended -- `=>` followed by `<=` at the same cursor is not a no-op: *)
(* `=>` moves the top value v to the stack on the right and `<=` moves the *)
(* next value w to the stack on the left.  When both succeed the origin    *)
(* stack has lost its top two values, the right stack has gained v, the    *)
(* left stack has gained w, every other stack is as it was and the cursor  *)
(* is where it started; the pair is fatal when the origin stack holds      *)
(* fewer than two values or the cursor is 0.                               *)
CopyRightThenLeftMoves ==
    (RanPair(M_copy_right, M_copy_left) /\ StackAt(hist[1]) # <<>>)
        => LET c == hist[1].current_stack
               origin == StackAt(hist[1])
           IN  IF c = 0 \/ Len(origin) < 2
               THEN phase = "panic"
               ELSE /\ phase = "exec"
                    /\ current_stack = c
                    /\ Len(stacks) >= c + 2
                    /\ stacks[c + 1] = Below(origin, 2)
                    /\ stacks[c + 2] = Append(RightOf(hist[1]), Top(origin))
                    /\ stacks[c] = Append(hist[1].stacks[c], Top(Below(origin, 1)))
                    /\ \A i \in DOMAIN stacks \ {c, c + 1, c + 2} :
                          stacks[i] = hist[1].stacks[i]

\* C8 witness: the pair has run, without a panic, from a stack that held
\* two values
CopyRightThenLeftWitness ==
    /\ RanPair(M_copy_right, M_copy_left)
    /\ Len(StackAt(hist[1])) >= 2
    /\ phase = "exec"

----------------------------------------------------------------------------
(* C9 -- `<-` or `<=` executed while the cursor is 0 ends the run in the   *)
(* fatal-error state with the leftmost-stack error, and no instruction     *)
(* follows; executed with the cursor above 0 they do not fail for that     *)
(* reason.                                                                 *)
LeftFromLeftmostError ==
    (Ran(M_left) \/ Ran(M_copy_left))
        => IF LastPre.current_stack = 0
           THEN phase = "panic" /\ err = LeftmostMessage /\ ~ENABLED Next
           ELSE err # LeftmostMessage

(* C9, amended -- `<-` executed while the cursor is 0 ends the run in the  *)
(* fatal-error state with the leftmost-stack error; `<=` executed while    *)
(* the cursor is 0 ends it in the fatal-error state too, with the          *)
(* leftmost-stack error when the current stack holds a value and with the  *)
(* empty-pop error when it is empty, since the pop comes first.  No        *)
(* instruction follows.  With the cursor above 0 neither fails with the    *)
(* leftmost-stack error.                                                   *)
LeftFromLeftmostFatal ==
    (Ran(M_left) \/ Ran(M_copy_left))
        => IF LastPre.current_stack = 0
           THEN /\ phase = "panic"
                /\ err = IF Ran(M_copy_left) /\ PreStack = <<>>
                         THEN PopMessage ELSE LeftmostMessage
                /\ ~ENABLED Next
           ELSE err # LeftmostMessage

\* C9 witness: `<=` has run at cursor 0 with a value on the stack
LeftFromLeftmostWitness ==
    /\ Ran(M_copy_left)
    /\ LastPre.current_stack = 0
    /\ PreStack # <<>>
    /\ phase = "panic"
    /\ err = LeftmostMessage

----------------------------------------------------------------------------
(* C10 -- Popping from an empty stack is fatal: an instruction that pops k *)
(* values, executed while the stack at the cursor holds fewer than k, ends *)
(* the run in the fatal-error state, even when other stacks hold values.   *)
PopsOne == {M_pop, M_dup, M_print, M_len, M_chr, M_jump, M_copy_right, M_copy_left}
PopsTwo == {M_add, M_sub, M_mul, M_div, M_mod, M_eq, M_neq, M_concat, M_get,
            M_jump_if, M_goto_if}

\* The last iteration dispatched an instruction that pops more values than
\* the stack at the cursor held
Underflowed ==
    /\ hist # <<>>
    /\ LastTok.kind = "Ident"
    /\ \/ LastTok.text \in PopsOne /\ Len(PreStack) < 1
       \/ LastTok.text \in PopsTwo /\ Len(PreStack) < 2

PopFromEmptyIsFatal == Underflowed => phase = "panic"

\* C10 witness: an instruction that pops two values has run on a stack that
\* held one, while another stack held values
PopFromEmptyWitness ==
    /\ Underflowed
    /\ LastTok.text \in PopsTwo
    /\ Len(PreStack) = 1
    /\ \E i \in DOMAIN LastPre.stacks :
          i # LastPre.current_stack + 1 /\ LastPre.stacks[i] # <<>>
    /\ phase = "panic"

----------------------------------------------------------------------------
(* C11 -- An identifier the execution pass dispatches that is no built-in, *)
(* does not begin with `:` and is no key of the label table ends the run   *)
(* in the fatal-error state ("unknown instruction"); an unknown identifier *)
(* the program counter never reaches causes no failure; and a built-in     *)
(* mnemonic is executed as the built-in even when a label has its name.    *)
UnknownMessage == "unknown instruction"

\* The built-ins that can set the program counter
JumpBuiltins == {M_jump, M_jump_if, M_goto_if}

UnknownInstructionIsFatal ==
    /\ (hist # <<>> /\ CallAt(LastPre) /\ LastTok.text \notin DOMAIN LastPre.labels)
          => phase = "panic" /\ err = UnknownMessage
    /\ err = UnknownMessage
          => hist # <<>> /\ CallAt(LastPre) /\ LastTok.text \notin DefinedNames
    /\ (hist # <<>> /\ LastTok.kind = "Ident" /\ LastTok.text \in Builtins)
          => /\ err # UnknownMessage
             /\ (phase = "exec" /\ LastTok.text \notin JumpBuiltins)
                   => pc = LastPre.pc + 1

\* C11 witness: a built-in has run, as the built-in, in a program that
\* defines a label of its name
UnknownInstructionWitness ==
    /\ Ran(M_dup)
    /\ M_dup \in DefinedNames
    /\ phase = "exec"
    /\ pc = LastPre.pc + 1
    /\ stacks[current_stack + 1] = Append(PreStack, Top(PreStack))

----------------------------------------------------------------------------
(* C12 -- The countdown loop terminates: for every counter n >= 1 the      *)
(* program that pushes n, defines `:loop`, then subtracts 1, duplicates    *)
(* the counter and executes jump_if to the index of `:loop` reaches normal *)
(* completion, without a fatal error, once the counter is 0, and the       *)
(* current stack then holds exactly the value 0.  Stated for a finite run: *)
(* the run of Countdown(n) never panics, is never stuck short of           *)
(* completion, and completes after its n rounds with the stack <<0>>.      *)
\* The countdown programs of the model
Countdowns == {Countdown(n) : n \in Counters}

CountdownTerminates ==
    tokens \in Countdowns
        => LET n == tokens[1].val
           IN  /\ phase # "panic"
               /\ steps <= 5 * n + 2
               /\ Completed \/ ENABLED Next
               /\ Completed
                     => /\ steps = 5 * n + 2
                        /\ current_stack = 0
                        /\ stacks = << <<format(0)>> >>

\* C12 witness: a countdown from more than 1 has completed
CountdownWitness ==
    /\ tokens \in Countdowns
    /\ tokens[1].val > 1
    /\ Completed
    /\ stacks = << <<format(0)>> >>

----------------------------------------------------------------------------
(* C13 -- Frame: every instruction other than `=>` and `<=` leaves every   *)
(* stack other than the one at the cursor unchanged; `=>` changes only the *)
(* stack at the cursor and the one immediately to its right, `<=` only the *)
(* stack at the cursor and the one immediately to its left.                *)
\* The 1-based places of the row the token dispatched at h may change
MayChange(h) ==
    {h.current_stack + 1}
        \cup (IF TokAt(h) = Ident(M_copy_right) THEN {h.current_stack + 2} ELSE {})
        \cup (IF TokAt(h) = Ident(M_copy_left) THEN {h.current_stack} ELSE {})

OtherStacksUnchanged ==
    hist # <<>>
        => /\ Len(stacks) >= Len(LastPre.stacks)
           /\ \A i \in DOMAIN LastPre.stacks :
                  i \notin MayChange(LastPre) => stacks[i] = LastPre.stacks[i]

\* C13 witness: an instruction has changed the stack at the cursor, which
\* is not the leftmost, and the row holds a value in another stack
OtherStacksWitness ==
    /\ hist # <<>>
    /\ phase = "exec"
    /\ LastPre.current_stack > 0
    /\ current_stack = LastPre.current_stack
    /\ stacks[current_stack + 1] # PreStack
    /\ \E i \in DOMAIN stacks : i # current_stack + 1 /\ stacks[i] # <<>>

----------------------------------------------------------------------------
(* C14 -- The row starts with exactly one empty stack and its length never *)
(* decreases; it grows by exactly one, a new empty stack appended on the   *)
(* right, exactly when a rightward move (`->`, or the rightward step       *)
(* inside `=>`) is made while the cursor is on the rightmost stack; no     *)
(* other instruction changes the length of the row.                        *)
\* The token dispatched at h made a rightward move: `->`, or `=>` once it
\* has popped its value
MovedRightAt(h) ==
    \/ TokAt(h) = Ident(M_right)
    \/ TokAt(h) = Ident(M_copy_right) /\ StackAt(h) # <<>>

GrewAt(h) == MovedRightAt(h) /\ h.current_stack + 1 = Len(h.stacks)

RowGrowsOnlyRightward ==
    /\ steps = 0 => stacks = << <<>> >>
    /\ hist # <<>>
          => IF GrewAt(LastPre)
             THEN /\ Len(stacks) = Len(LastPre.stacks) + 1
                  /\ stacks[Len(stacks)] =
                         IF LastTok = Ident(M_right) THEN <<>>
                         ELSE <<Top(PreStack)>>
             ELSE Len(stacks) = Len(LastPre.stacks)

\* C14 witness: `=>` from the rightmost stack has appended a stack, and the
\* rightward move after it, within the row, has not
RowGrowsWitness ==
    /\ Len(hist) = 2
    /\ TokAt(hist[1]) = Ident(M_copy_right)
    /\ GrewAt(hist[1])
    /\ Len(hist[2].stacks) = Len(hist[1].stacks) + 1
    /\ TokAt(hist[2]) = Ident(M_right)
    /\ ~GrewAt(hist[2])
    /\ current_stack = hist[2].current_stack + 1
    /\ Len(stacks) = Len(hist[2].stacks)

----------------------------------------------------------------------------
(* C15 -- A Bang token at token index i pushes the decimal text of i onto  *)
(* the stack at the cursor and changes nothing else; a later `jump` that   *)
(* pops this value resumes execution at token index i + 1.                 *)
BangPushesItsIndex ==
    /\ (hist # <<>> /\ LastTok = Bang)
          => /\ phase = "exec"
             /\ stacks = [LastPre.stacks EXCEPT
                             ![LastPre.current_stack + 1] =
                                 Append(@, format(LastPre.pc))]
             /\ current_stack = LastPre.current_stack
             /\ labels = LastPre.labels
             /\ stdout = LastPre.stdout
             /\ pc = LastPre.pc + 1
    /\ (Len(hist) = 2 /\ TokAt(hist[1]) = Bang /\ TokAt(hist[2]) = Ident(M_jump))
          => /\ phase = "exec"
             /\ pc = hist[1].pc + 1
             /\ stacks = hist[1].stacks

\* C15 witness: a jump has popped the index a Bang pushed
BangWitness ==
    /\ Len(hist) = 2
    /\ TokAt(hist[1]) = Bang
    /\ TokAt(hist[2]) = Ident(M_jump)
    /\ hist[1].pc > 0
    /\ Top(StackAt(hist[2])) = format(hist[1].pc)
    /\ pc = hist[1].pc + 1

----------------------------------------------------------------------------
(* C16 -- For every value v on top of the stack at the cursor, `dup`       *)
(* followed by `==` leaves the value 1 in place of v, with the rest of the *)
(* stack unchanged.                                                        *)
DupThenEqLeavesOne ==
    (RanPair(M_dup, M_eq) /\ StackAt(hist[1]) # <<>>)
        => /\ phase = "exec"
           /\ current_stack = hist[1].current_stack
           /\ stacks = [hist[1].stacks EXCEPT
                           ![hist[1].current_stack + 1] =
                               Append(Below(@, 1), format(1))]

\* C16 witness: `dup` then `==` have run on a value that is no integer,
\* above another value
DupThenEqWitness ==
    /\ RanPair(M_dup, M_eq)
    /\ Len(StackAt(hist[1])) >= 2
    /\ ~ParseOk(Top(StackAt(hist[1])))
    /\ Top(stacks[current_stack + 1]) = format(1)

----------------------------------------------------------------------------
(* C19 -- `goto_if` always pops two values, the label name first and then  *)
(* the integer condition; with the condition 0 it does not consult the     *)
(* label table, so it does not fail even when the name is not defined, and *)
(* execution continues with the token after it; with a condition other     *)
(* than 0 and a name that is not in the label table it is fatal.           *)
UnknownLabelMessage == "unknown label"

GotoIfTestsConditionFirst ==
    (Ran(M_goto_if) /\ IsInt(PreStack, 2))
        => LET name == Top(PreStack)
               popped == [LastPre.stacks EXCEPT
                             ![LastPre.current_stack + 1] = Below(@, 2)]
           IN  IF IntAt(PreStack, 2) = 0
               THEN /\ phase = "exec"
                    /\ pc = LastPre.pc + 1
                    /\ stacks = popped
               ELSE IF name \in DOMAIN LastPre.labels
               THEN /\ phase = "exec"
                    /\ pc = LastPre.labels[name] + 1
                    /\ stacks = popped
               ELSE /\ phase = "panic"
                    /\ err = UnknownLabelMessage

\* C19 witness: a goto_if with the condition 0 and a name that no token
\* defines has been passed
GotoIfWitness ==
    /\ Ran(M_goto_if)
    /\ IsInt(PreStack, 2)
    /\ IntAt(PreStack, 2) = 0
    /\ Top(PreStack) \notin DefinedNames
    /\ phase = "exec"
    /\ pc = LastPre.pc + 1

----------------------------------------------------------------------------
(* C20 -- Raw jump targets are not bounds-checked: a `jump`, or a taken    *)
(* `jump_if`, whose target t is non-negative with t + 1 >= the token count *)
(* gives normal completion, not a fatal error, with the stacks as they are *)
(* after the instruction's pops; execution is in the normal-completion     *)
(* state exactly when pc >= the token count, and no instruction is         *)
(* dispatched after that.                                                  *)
\* The row once the token dispatched at h has popped k values
Popped(h, k) == [h.stacks EXCEPT ![h.current_stack + 1] = Below(@, k)]

JumpPastEndCompletes ==
    /\ (hist # <<>> /\ TakenJumpAt(LastPre)
          /\ IntAt(PreStack, 1) >= 0 /\ IntAt(PreStack, 1) + 1 >= Len(tokens))
          => /\ phase = "exec"
             /\ pc = IntAt(PreStack, 1) + 1
             /\ stacks = Popped(LastPre, IF LastTok = Ident(M_jump) THEN 1 ELSE 2)
             /\ current_stack = LastPre.current_stack
             /\ Completed
    /\ (phase = "exec" /\ pc >= Len(tokens)) => Completed
    /\ (phase = "exec" /\ pc >= 0 /\ pc < Len(tokens)) => ~Completed
    /\ \A k \in DOMAIN hist : hist[k].pc >= 0 /\ hist[k].pc < Len(tokens)

\* C20 witness: a jump was taken to a target beyond the last token and the
\* run has completed
JumpPastEndWitness ==
    /\ hist # <<>>
    /\ TakenJumpAt(LastPre)
    /\ IntAt(PreStack, 1) >= Len(tokens)
    /\ Completed
    /\ pc = IntAt(PreStack, 1) + 1

----------------------------------------------------------------------------
(* C17 -- The tokenizer emits `(` and `)` as standalone tokens: every `(`  *)
(* or `)` of the source text outside a string literal and outside a line   *)
(* comment produces exactly one LParen or RParen token at its position in  *)
(* the token sequence, also when it immediately follows an identifier or   *)
(* an integer literal with no whitespace in between.  Stated for the texts *)
(* without `//` in which every quote is paired: the parenthesis tokens, in *)
(* order, are the parentheses of the text outside its string literals.     *)
\* The parentheses of src from position i on that are outside the string
\* literals, as tokens; a quote begins or ends a literal
RECURSIVE ParenChars(_, _, _)
ParenChars(src, i, inString) ==
    IF i > Len(src) THEN <<>>
    ELSE IF src[i] = Code("\"") THEN ParenChars(src, i + 1, ~inString)
    ELSE IF ~inString /\ src[i] = Code("(")
    THEN <<LParen>> \o ParenChars(src, i + 1, inString)
    ELSE IF ~inString /\ src[i] = Code(")")
    THEN <<RParen>> \o ParenChars(src, i + 1, inString)
    ELSE ParenChars(src, i + 1, inString)

\* The parenthesis tokens of a token sequence, in order
RECURSIVE ParenTokens(_)
ParenTokens(toks) ==
    IF toks = <<>> THEN <<>>
    ELSE IF toks[1] \in {LParen, RParen}
    THEN <<toks[1]>> \o ParenTokens(Tail(toks))
    ELSE ParenTokens(Tail(toks))

\* The text has no `//`, and its quotes are paired
NoComment(src) ==
    \A i \in 1..(Len(src) - 1) : ~(src[i] = Code("/") /\ src[i + 1] = Code("/"))

QuotesPaired(src) ==
    Cardinality({i \in DOMAIN src : src[i] = Code("\"")}) % 2 = 0

ParensAreTokens ==
    (phase # "lex" /\ NoComment(source) /\ QuotesPaired(source))
        => /\ phase = "index"
           /\ ParenTokens(tokens) = ParenChars(source, 1, FALSE)

----------------------------------------------------------------------------
(* C18 -- An integer literal consumes only its digits: when a run of       *)
(* digits is immediately followed by a character that is neither a digit   *)
(* nor whitespace, the tokenizer emits the Integer token for the digits    *)
(* and the following character still begins the next token (`2+` yields    *)
(* Integer 2 then Identifier `+`, `1"a"` yields Integer 1 then String a).  *)
(* Stated for the texts that begin with the digits, have no `//` and have  *)
(* their quotes paired.                                                    *)
\* The number of digits src begins with, counted from position i
RECURSIVE LeadingDigits(_, _)
LeadingDigits(src, i) ==
    IF i > Len(src) \/ ~IsDigit(src[i]) THEN i - 1 ELSE LeadingDigits(src, i + 1)

\* The token tok is one that begins at position i of src
BeginsAt(tok, src, i) ==
    LET c == src[i]
        peek == IF i + 1 > Len(src) THEN 0 - 1 ELSE src[i + 1]
    IN  IF c = Code("(") THEN tok = LParen
        ELSE IF c = Code(")") THEN tok = RParen
        ELSE IF c = Code("\"") THEN tok.kind = "Str"
        ELSE IF c = Code("!") /\ peek # Code("=") THEN tok = Bang
        ELSE tok.kind = "Ident" /\ tok.text # <<>> /\ tok.text[1] = c

IntegerKeepsNextChar ==
    LET k == LeadingDigits(source, 1)
    IN  (/\ phase # "lex"
         /\ k >= 1
         /\ k < Len(source)
         /\ ~IsSpace(source[k + 1])
         /\ NoComment(source)
         /\ QuotesPaired(source))
            => /\ phase = "index"
               /\ Len(tokens) >= 2
               /\ tokens[1] = IntTok(DigitsVal(SubSeq(source, 1, k)))
               /\ BeginsAt(tokens[2], source, k + 1)

====
